---- MODULE Spec2Model ----
(***************************************************************************)
(* A model of the Hanabi rule engine (src/src/hanabi.rs) and of its        *)
(* command-line driver (src/src/main.rs).                                  *)
(*                                                                         *)
(* Structs are records with the fields of the source, Option<T> is a       *)
(* sequence of length 0 or 1, a HashMap is a function whose DOMAIN is the  *)
(* set of keys present.  Every method is an operator from the receiver     *)
(* (and its arguments) to the receiver after the call; a method that can   *)
(* panic returns a record with a panic flag.  The driver reads one input   *)
(* line per step.                                                          *)
(***************************************************************************)
EXTENDS Integers, Sequences, FiniteSets, TLC

(***************************************************************************)
(* Bounds of the exploration.                                              *)
(***************************************************************************)
\* input lines read after the initial state of a run
MaxTurns == 3

(***************************************************************************)
(* usize.  The checker's integers are narrower than the target's usize:    *)
(* UsizeMax stands for usize::MAX and arithmetic wraps modulo UsizeMax+1.  *)
(***************************************************************************)
UsizeMax == 2147483647

usize_wrapping_sub(a, b) == IF a >= b THEN a - b ELSE UsizeMax - (b - a - 1)

(***************************************************************************)
(* the({e(x) : x \in {v}}) is e(v) with v computed once: the way the model *)
(* names the result of a call before using its fields.                     *)
(***************************************************************************)
the(S) == CHOOSE x \in S : TRUE

(***************************************************************************)
(* Option<T>                                                               *)
(***************************************************************************)
None == << >>
Some(x) == << x >>
is_none(o) == Len(o) = 0
is_some(o) == Len(o) = 1
unwrap(o) == o[1]

(***************************************************************************)
(* HashMap<K, V>                                                           *)
(***************************************************************************)
HashMap_new == [k \in {} |-> 0]
contains_key(m, k) == k \in DOMAIN m
HashMap_get(m, k) == IF k \in DOMAIN m THEN Some(m[k]) ELSE None
insert(m, k, v) == [x \in (DOMAIN m) \cup {k} |-> IF x = k THEN v ELSE m[x]]

(***************************************************************************)
(* struct Secret<T>                                                        *)
(***************************************************************************)
Secret_new(value) == [value |-> value, known |-> FALSE]
reveal(self) == [self EXCEPT !.known = TRUE]
get(self) == IF self.known THEN Some(self.value) ELSE None
reveal_if_any(self, value) == reveal(self)
reveal_if(self, value) == IF self.value = value THEN reveal(self) ELSE self
peek(self) == self.value

(***************************************************************************)
(* enum Color, struct Card                                                 *)
(***************************************************************************)
Color == {"Red", "Blue", "Green", "White", "Yellow"}

Card_new(color, number) ==
    [number |-> Secret_new(number), color |-> Secret_new(color)]
hint_color(self, value) == [self EXCEPT !.color = reveal_if(@, value)]
hint_number(self, value) == [self EXCEPT !.number = reveal_if(@, value)]

(***************************************************************************)
(* struct Deck                                                             *)
(***************************************************************************)
\* the colors and numbers in the order Deck::new and init_discard_limits
\* iterate over them
colors == << "Red", "Blue", "Green", "White", "Yellow" >>
numbers == << 1, 2, 3, 4, 5 >>

copies(number) ==
    CASE number = 1 -> 3
      [] number = 2 -> 2
      [] number = 3 -> 2
      [] number = 4 -> 2
      [] number = 5 -> 1
      [] OTHER -> 0

\* for _ in 0..copies { deque.push(Card::new(color, number)) }
push_copies(color, number) ==
    [n \in 1..copies(number) |-> Card_new(color, number)]

\* for number in &numbers, from numbers[k] on
RECURSIVE push_numbers(_, _)
push_numbers(color, k) ==
    IF k > Len(numbers) THEN << >>
    ELSE push_copies(color, numbers[k]) \o push_numbers(color, k + 1)

\* for color in colors, from colors[k] on
RECURSIVE push_colors(_)
push_colors(k) ==
    IF k > Len(colors) THEN << >>
    ELSE push_numbers(colors[k], 1) \o push_colors(k + 1)

\* deque.shuffle(&mut thread_rng()): position i of the shuffled vector holds
\* the card that was pushed at position perm[i]
shuffle(deque, perm) == [i \in 1..Len(deque) |-> deque[perm[i]]]

Deck_new(perm) ==
    [cards |-> shuffle(push_colors(1), perm), depleted |-> FALSE]

get_card_depleted_early(self) ==
    LET d1 == IF Len(self.cards) = 2 THEN [self EXCEPT !.depleted = TRUE] ELSE self
    IN  IF Len(d1.cards) = 0
        THEN [deck |-> d1, card |-> None, panic |-> TRUE]
        ELSE [deck  |-> [d1 EXCEPT !.cards = SubSeq(@, 1, Len(@) - 1)],
              card  |-> Some(d1.cards[Len(d1.cards)]),
              panic |-> FALSE]

\* Vec::pop().unwrap() panics on an empty vector
get_card(self) ==
    LET d1 == IF Len(self.cards) = 1 THEN [self EXCEPT !.depleted = TRUE] ELSE self
    IN  IF Len(d1.cards) = 0
        THEN [deck |-> d1, card |-> None, panic |-> TRUE]
        ELSE [deck  |-> [d1 EXCEPT !.cards = SubSeq(@, 1, Len(@) - 1)],
              card  |-> Some(d1.cards[Len(d1.cards)]),
              panic |-> FALSE]

is_empty(self) == self.depleted

(***************************************************************************)
(* struct Game.  stdout is not a field of the struct: it is the sequence   *)
(* of reasons end_game has printed ("Game Over: <reason>").                *)
(***************************************************************************)
init_discard_limits ==
    LET default == (1 :> 3) @@ (2 :> 2) @@ (3 :> 2) @@ (4 :> 2) @@ (5 :> 1)
    IN  [color \in {colors[k] : k \in 1..Len(colors)} |-> default]

Game_new(perm, perfection) ==
    [deck           |-> Deck_new(perm),
     hints          |-> 7,
     max_hints      |-> 7,
     lives          |-> 3,
     played         |-> HashMap_new,
     discarded      |-> HashMap_new,
     discard_limits |-> init_discard_limits,
     perfection     |-> perfection,
     ended          |-> FALSE,
     stdout         |-> << >>]

end_game(self, reason) ==
    [self EXCEPT !.ended = TRUE, !.stdout = Append(@, reason)]

is_valid_play_any_first(self, card) ==
    LET color == peek(card.color)
        number == peek(card.number)
        x == HashMap_get(self.played, color)
    IN  IF is_none(x) THEN TRUE ELSE number = unwrap(x) + 1

is_valid_play(self, card) ==
    LET color == peek(card.color)
        number == peek(card.number)
        x == HashMap_get(self.played, color)
    IN  IF is_none(x) THEN number = 1 ELSE number = unwrap(x) + 1

drop_card_counting_2(self, card) ==
    LET color == peek(card.color)
        number == peek(card.number)
        inner == IF contains_key(self.discarded, color)
                 THEN self.discarded[color] ELSE HashMap_new
        inner1 == IF contains_key(inner, number)
                  THEN [inner EXCEPT ![number] = @ + 2]
                  ELSE insert(inner, number, 1)
    IN  the({IF g1.perfection
                /\ g1.discarded[color][number] = g1.discard_limits[color][number]
             THEN end_game(g1, "Hit discard limit with perfection enabled.")
             ELSE g1 :
                g1 \in {[self EXCEPT !.discarded = insert(@, color, inner1)]}})

drop_card_any_mode(self, card) ==
    LET color == peek(card.color)
        number == peek(card.number)
        inner == IF contains_key(self.discarded, color)
                 THEN self.discarded[color] ELSE HashMap_new
        inner1 == IF contains_key(inner, number)
                  THEN [inner EXCEPT ![number] = @ + 1]
                  ELSE insert(inner, number, 1)
    IN  the({IF g1.discarded[color][number] = g1.discard_limits[color][number]
             THEN end_game(g1, "Hit discard limit with perfection enabled.")
             ELSE g1 :
                g1 \in {[self EXCEPT !.discarded = insert(@, color, inner1)]}})

drop_card(self, card) ==
    LET color == peek(card.color)
        number == peek(card.number)
        \* .entry(color).or_default()
        inner == IF contains_key(self.discarded, color)
                 THEN self.discarded[color] ELSE HashMap_new
        \* .entry(number).and_modify(|number| *number += 1).or_insert(1)
        inner1 == IF contains_key(inner, number)
                  THEN [inner EXCEPT ![number] = @ + 1]
                  ELSE insert(inner, number, 1)
    IN  the({IF g1.perfection
                /\ g1.discarded[color][number] = g1.discard_limits[color][number]
             THEN end_game(g1, "Hit discard limit with perfection enabled.")
             ELSE g1 :
                g1 \in {[self EXCEPT !.discarded = insert(@, color, inner1)]}})

Game_discard_uncapped(self, card) ==
    the({drop_card(g1, card) : g1 \in {[self EXCEPT !.hints = @ + 1]}})

Game_discard(self, card) ==
    the({drop_card(g1, card) :
            g1 \in {IF self.hints < self.max_hints
                    THEN [self EXCEPT !.hints = @ + 1] ELSE self}})

\* self.played.entry(color).and_modify(|number| *number += 1).or_insert(1)
and_modify_or_insert_by_2(played, color) ==
    IF contains_key(played, color)
    THEN [played EXCEPT ![color] = @ + 2]
    ELSE insert(played, color, 1)

and_modify_or_insert(played, color) ==
    IF contains_key(played, color)
    THEN [played EXCEPT ![color] = @ + 1]
    ELSE insert(played, color, 1)

\* self.played.values().all(|x| *x == 5)
values_all_above_5(played) == \A c \in DOMAIN played : played[c] > 5

values_all_5(played) == \A c \in DOMAIN played : played[c] = 5

\* overflow_checks: whether the build panics on arithmetic overflow (debug
\* profile) or wraps (release profile).  ret is the Option of the returned bool.
Game_play(self, card, overflow_checks) ==
    LET color == peek(card.color) IN
    IF is_valid_play(self, card)
    THEN the({[game  |-> IF values_all_5(g1.played)
                         THEN end_game(g1, "All colors completed") ELSE g1,
               ret   |-> Some(TRUE),
               panic |-> FALSE] :
                g1 \in {[self EXCEPT !.played = and_modify_or_insert(@, color)]}})
    ELSE IF self.lives = 0 /\ overflow_checks
         THEN [game |-> self, ret |-> None, panic |-> TRUE]
         ELSE the({[game |-> drop_card(g2, card), ret |-> Some(FALSE),
                    panic |-> FALSE] :
                     g2 \in {the({IF g1.lives = 0
                                  THEN end_game(g1, "Ran out of lives") ELSE g1 :
                                     g1 \in {[self EXCEPT !.lives =
                                                usize_wrapping_sub(@, 1)]}})}})

check_dangerous(self, color, number, count) ==
    LET p == HashMap_get(self.played, color)
        x == IF is_none(p) THEN 0 ELSE unwrap(p)
    IN  IF x > number THEN FALSE
        ELSE IF count + 1 < self.discard_limits[color][number] THEN FALSE
        ELSE TRUE

\* discarded_strings: for every color and number present in discarded, whether
\* the group of that number is underlined (danger)
discarded_strings(self) ==
    [color \in DOMAIN self.discarded |->
        [num \in DOMAIN self.discarded[color] |->
            check_dangerous(self, color, num, self.discarded[color][num])]]

(***************************************************************************)
(* struct Player                                                           *)
(***************************************************************************)
Player_draw(self, game) ==
    the({[player |-> IF r.panic THEN self
                     ELSE [self EXCEPT !.hand = Append(@, unwrap(r.card))],
          game   |-> [game EXCEPT !.deck = r.deck],
          panic  |-> r.panic] :
            r \in {get_card(game.deck)}})

RECURSIVE draw_n(_, _, _)
draw_n(self, game, n) ==
    IF n = 0 THEN [player |-> self, game |-> game, panic |-> FALSE]
    ELSE the({IF r.panic THEN r ELSE draw_n(r.player, r.game, n - 1) :
                r \in {Player_draw(self, game)}})

Player_new(game, hand_size) ==
    draw_n([hand |-> << >>, hand_size |-> hand_size], game, hand_size)

\* VecDeque::remove(index): None when index is out of bounds
VecDeque_remove(hand, index) ==
    IF index < Len(hand)
    THEN [rest |-> SubSeq(hand, 1, index) \o SubSeq(hand, index + 2, Len(hand)),
          card |-> Some(hand[index + 1])]
    ELSE [rest |-> hand, card |-> None]

Player_play_cloning(self, card_index, game, overflow_checks) ==
    LET rm == VecDeque_remove(self.hand, card_index) IN
    IF is_none(rm.card)
    THEN [player |-> self, game |-> game, panic |-> TRUE,
          card |-> None, ret |-> None]
    ELSE the({IF gp.panic
              THEN [player |-> self, game |-> gp.game, panic |-> TRUE,
                    card |-> rm.card, ret |-> None]
              ELSE the({[player |-> dr.player, game |-> dr.game,
                         panic |-> dr.panic, card |-> rm.card, ret |-> gp.ret] :
                          dr \in {Player_draw(self, gp.game)}}) :
                gp \in {Game_play(game, unwrap(rm.card), overflow_checks)}})

\* card is the card taken from the hand, ret what Game::play returned
Player_play(self, card_index, game, overflow_checks) ==
    LET rm == VecDeque_remove(self.hand, card_index) IN
    IF is_none(rm.card)
    THEN [player |-> self, game |-> game, panic |-> TRUE,
          card |-> None, ret |-> None]
    ELSE the({IF gp.panic
              THEN [player |-> p1, game |-> gp.game, panic |-> TRUE,
                    card |-> rm.card, ret |-> None]
              ELSE the({[player |-> dr.player, game |-> dr.game,
                         panic |-> dr.panic, card |-> rm.card, ret |-> gp.ret] :
                          dr \in {Player_draw(p1, gp.game)}}) :
                p1 \in {[self EXCEPT !.hand = rm.rest]},
                gp \in {Game_play(game, unwrap(rm.card), overflow_checks)}})

Player_discard_no_draw(self, card_index, game) ==
    LET rm == VecDeque_remove(self.hand, card_index) IN
    IF is_none(rm.card)
    THEN [player |-> self, game |-> game, panic |-> TRUE,
          card |-> None, ret |-> None]
    ELSE the({[player |-> p1, game |-> g1,
               panic |-> FALSE, card |-> rm.card, ret |-> None] :
                p1 \in {[self EXCEPT !.hand = rm.rest]},
                g1 \in {Game_discard(game, unwrap(rm.card))}})

Player_discard(self, card_index, game) ==
    LET rm == VecDeque_remove(self.hand, card_index) IN
    IF is_none(rm.card)
    THEN [player |-> self, game |-> game, panic |-> TRUE,
          card |-> None, ret |-> None]
    ELSE the({the({[player |-> dr.player, game |-> dr.game,
                    panic |-> dr.panic, card |-> rm.card, ret |-> None] :
                     dr \in {Player_draw(p1, g1)}}) :
                p1 \in {[self EXCEPT !.hand = rm.rest]},
                g1 \in {Game_discard(game, unwrap(rm.card))}})

get_color_hint(self, color) ==
    [self EXCEPT !.hand = [k \in 1..Len(@) |-> hint_color(@[k], color)]]

get_number_hint(self, number) ==
    [self EXCEPT !.hand = [k \in 1..Len(@) |-> hint_number(@[k], number)]]

(***************************************************************************)
(* src/src/main.rs.  An input line is the sequence parts of its words      *)
(* (input.split(" ")), each word a string.                                 *)
(***************************************************************************)
\* str::parse::<usize>().ok() on the words the model feeds in
decimal ==
    ("0" :> 0) @@ ("1" :> 1) @@ ("2" :> 2) @@ ("3" :> 3) @@ ("4" :> 4) @@
    ("5" :> 5) @@ ("6" :> 6) @@ ("7" :> 7) @@ ("8" :> 8) @@ ("9" :> 9)
parse_usize(word) == IF word \in DOMAIN decimal THEN Some(decimal[word]) ELSE None

\* parts.get(k), k counted from 0
parts_get(parts, k) == IF k < Len(parts) THEN Some(parts[k + 1]) ELSE None

\* the color letters matched in hint
letters ==
    ("r" :> "Red") @@ ("w" :> "White") @@ ("b" :> "Blue") @@
    ("y" :> "Yellow") @@ ("g" :> "Green")

\* what a command handler hands back: res is the Option<usize> it returns,
\* card the card taken from the hand, ret what Game::play returned
Outcome(players, game, res, panic, card, ret) ==
    [players |-> players, game |-> game, res |-> res, panic |-> panic,
     card |-> card, ret |-> ret]

Refused(players, game) == Outcome(players, game, None, FALSE, None, None)

print_help(players, game) == Refused(players, game)

hint(parts, players, game) ==
    IF game.hints = 0 THEN Refused(players, game)
    ELSE
    LET word1 == parts_get(parts, 1)
        player == IF is_none(word1) THEN None ELSE parse_usize(unwrap(word1))
        value == parts_get(parts, 2)
        number == IF is_none(value) THEN None ELSE parse_usize(unwrap(value))
        done(hand_after) ==
            Outcome([players EXCEPT ![unwrap(player)] = hand_after],
                    [game EXCEPT !.hints = @ - 1], Some(0), FALSE, None, None)
    IN  IF is_none(player) \/ is_none(value) THEN Refused(players, game)
        ELSE IF is_some(number)
        THEN IF ~ contains_key(players, unwrap(player))
             THEN Refused(players, game)
             ELSE done(get_number_hint(players[unwrap(player)], unwrap(number)))
        ELSE IF unwrap(value) \in DOMAIN letters
        THEN IF ~ contains_key(players, unwrap(player))
             THEN Refused(players, game)
             ELSE done(get_color_hint(players[unwrap(player)],
                                      letters[unwrap(value)]))
        ELSE Refused(players, game)

play(parts, players, game, current_player, overflow_checks) ==
    LET word1 == parts_get(parts, 1)
        index == IF is_none(word1) THEN None ELSE parse_usize(unwrap(word1))
    IN  IF is_none(index) THEN Refused(players, game)
        ELSE IF ~ contains_key(players, current_player)
        THEN Refused(players, game)
        ELSE IF unwrap(index) > players[current_player].hand_size
        THEN Refused(players, game)
        ELSE the({Outcome([players EXCEPT ![current_player] = r.player], r.game,
                          IF r.panic THEN None ELSE Some(0), r.panic, r.card,
                          r.ret) :
                    r \in {Player_play(players[current_player], unwrap(index),
                                       game, overflow_checks)}})

discard(parts, players, game, current_player) ==
    LET word1 == parts_get(parts, 1)
        index == IF is_none(word1) THEN None ELSE parse_usize(unwrap(word1))
    IN  IF is_none(index) THEN Refused(players, game)
        ELSE IF ~ contains_key(players, current_player)
        THEN Refused(players, game)
        ELSE IF unwrap(index) > players[current_player].hand_size
        THEN Refused(players, game)
        ELSE the({Outcome([players EXCEPT ![current_player] = r.player], r.game,
                          IF r.panic THEN None ELSE Some(0), r.panic, r.card,
                          r.ret) :
                    r \in {Player_discard(players[current_player], unwrap(index),
                                          game)}})

quit(players, game) ==
    Outcome(players, end_game(game, "Quit by player"), Some(0), FALSE, None, None)

\* the match on parts[0] in parse_command
dispatch(parts, players, game, current_player, overflow_checks) ==
    CASE parts[1] = "?" -> print_help(players, game)
      [] parts[1] = "h" -> hint(parts, players, game)
      [] parts[1] = "p" -> play(parts, players, game, current_player, overflow_checks)
      [] parts[1] = "d" -> discard(parts, players, game, current_player)
      [] parts[1] = "q" -> quit(players, game)
      [] OTHER -> Refused(players, game)

(***************************************************************************)
(* The state of a run of main: the Game, the players, the position of the  *)
(* loops (i is the player being prompted; pc is "prompt" while             *)
(* parse_command waits for a line, "exited" once while !game.ended has     *)
(* left the loop, "panicked" once the process has aborted), and last, the  *)
(* line read most recently with what its handler handed back.              *)
(***************************************************************************)
NoLine == [parts |-> << >>, player |-> 0, res |-> None, panic |-> FALSE,
           card |-> None, ret |-> None]

\* for i in 0..num_player { players.insert(i, Player::new(&mut game, hand_size)) }
\* from i = k on
RECURSIVE insert_players(_, _, _, _)
insert_players(dealt, k, num_player, hand_size) ==
    IF k >= num_player \/ dealt.panic THEN dealt
    ELSE the({insert_players(next, k + 1, num_player, hand_size) :
                next \in {the({[players |-> insert(dealt.players, k, r.player),
                                game |-> r.game, panic |-> r.panic] :
                                  r \in {Player_new(dealt.game, hand_size)}})}})

\* main up to the first prompt
main(perm, num_player, perfection) ==
    LET hand_size == IF num_player < 5 THEN 5 ELSE 4
        game0 == Game_new(perm, perfection)
    IN  the({[game |-> dealt.game, players |-> dealt.players,
              num_player |-> num_player, i |-> 0,
              pc |-> IF dealt.panic THEN "panicked"
                     ELSE IF dealt.game.ended THEN "exited" ELSE "prompt",
              last |-> NoLine] :
                dealt \in {insert_players([players |-> HashMap_new,
                                           game |-> game0, panic |-> FALSE],
                                          0, num_player, hand_size)}})

\* one line read by parse_command for player w.i, and the loops of main up to
\* the next prompt
read_line(w, parts, overflow_checks) ==
    the({the({IF r.panic THEN [w1 EXCEPT !.pc = "panicked"]
              ELSE IF is_none(r.res) THEN w1
              ELSE IF w.i + 1 < w.num_player THEN [w1 EXCEPT !.i = w.i + 1]
              ELSE IF r.game.ended THEN [w1 EXCEPT !.pc = "exited"]
              ELSE [w1 EXCEPT !.i = 0] :
                w1 \in {[w EXCEPT !.game = r.game, !.players = r.players,
                            !.last = [parts |-> parts, player |-> w.i,
                                      res |-> r.res, panic |-> r.panic,
                                      card |-> r.card, ret |-> r.ret]]}}) :
            r \in {dispatch(parts, w.players, w.game, w.i, overflow_checks)}})

(***************************************************************************)
(* Inputs.  A run is fixed by the outcome of the shuffle, the answers to   *)
(* the two start-up questions and the lines typed at the prompt.           *)
(***************************************************************************)
\* Shuffles.  dealt_in_order deals the 2-player game so that the card at the
\* front of the hand of the player to move is always the next card of the
\* sequence Red 1, Blue 1, ..., Yellow 1, Red 2, ..., Yellow 5; strided is an
\* unrelated order.  pop_order[j] is the position in the unshuffled vector of
\* the j-th card drawn; cards are drawn from the back of the vector.
first_copy(k) == 10 * (k % 5) + << 0, 3, 5, 7, 9 >>[(k \div 5) + 1] + 1
other_copy(m) == 10 * (m \div 5) + << 2, 3, 5, 7, 9 >>[(m % 5) + 1]
pop_order ==
    [j \in 1..50 |->
        IF j <= 5 THEN first_copy(2 * (j - 1))
        ELSE IF j <= 10 THEN first_copy(2 * (j - 6) + 1)
        ELSE IF j <= 25 THEN first_copy(j - 1)
        ELSE other_copy(j - 26)]
dealt_in_order == [i \in 1..50 |-> pop_order[51 - i]]
strided == [i \in 1..50 |-> ((7 * i + 3) % 50) + 1]
Shuffles == {dealt_in_order, strided}

\* get_player_count accepts 2..5
PlayerCounts == {2, 5}

\* the lines typed
IndexWords == {"0", "3", "4", "5", "6", "x"}
PlayLines == {<< "p" >>} \cup {<< "p", w >> : w \in IndexWords}
DiscardLines == {<< "d" >>} \cup {<< "d", w >> : w \in IndexWords}
HintLines ==
    {<< "h" >>, << "h", "1" >>}
    \cup {<< "h", p, v >> : p \in {"1", "7", "x"}, v \in {"r", "1", "9", "x"}}
OtherLines == {<< "" >>, << "z" >>}

RECURSIVE repeat(_, _)
repeat(line, n) == IF n = 0 THEN << >> ELSE << line >> \o repeat(line, n - 1)

\* Openings: the lines a run starts with, before the lines of the exploration.
\* Nothing; 24 plays of the front card; 39 discards of the front card; 6 hints;
\* 2 plays of the last card; a mix of plays and discards ended by a quit; plays
\* of the cards of one color only (with dealt_in_order and 2 players), the turns
\* between them passed by hints and discards, ended by a quit.
Openings ==
    {<< >>,
     repeat(<< "p", "0" >>, 24),
     repeat(<< "d", "0" >>, 39),
     repeat(<< "h", "1", "r" >>, 6),
     repeat(<< "p", "4" >>, 2),
     << << "p", "0" >>, << "p", "0" >>, << "d", "0" >>, << "d", "0" >>,
        << "p", "0" >>, << "d", "0" >>, << "d", "0" >>, << "d", "0" >>,
        << "d", "3" >>, << "q" >> >>,
     << << "p", "0" >>, << "d", "0" >>, << "h", "1", "r" >>, << "d", "0" >>,
        << "h", "1", "r" >>, << "p", "0" >>, << "p", "4" >>, << "h", "1", "r" >>,
        << "d", "0" >>, << "h", "1", "r" >>, << "p", "4" >>, << "d", "0" >>,
        << "d", "0" >>, << "d", "0" >>, << "d", "0" >>, << "h", "1", "r" >>,
        << "p", "4" >>, << "q" >> >>}

(***************************************************************************)
(* The state machine.  game .. last are the state of main (see read_line); *)
(* stdin holds the lines of the opening not read yet, and turns counts the *)
(* lines read after the opening.                                           *)
(***************************************************************************)
VARIABLES game, players, num_player, i, pc, last, stdin, turns

vars == << game, players, num_player, i, pc, last, stdin, turns >>

World == [game |-> game, players |-> players, num_player |-> num_player,
          i |-> i, pc |-> pc, last |-> last]

Init ==
    \E perm \in Shuffles, n \in PlayerCounts, perfection \in BOOLEAN,
       opening \in Openings :
        \E w \in {main(perm, n, perfection)} :
            /\ game = w.game
            /\ players = w.players
            /\ num_player = w.num_player
            /\ i = w.i
            /\ pc = w.pc
            /\ last = w.last
            /\ stdin = opening
            /\ turns = 0

\* the lines among S that may be typed now
Typed(S) ==
    IF pc # "prompt" THEN {}
    ELSE IF stdin # << >> THEN {Head(stdin)} \cap S
    ELSE IF turns < MaxTurns THEN S
    ELSE {}

\* parse_command reads the line parts
Reads(parts) ==
    /\ stdin' = IF stdin # << >> THEN Tail(stdin) ELSE stdin
    /\ turns' = IF stdin # << >> THEN turns ELSE turns + 1
    /\ \E overflow_checks \in BOOLEAN :
          \E w \in {read_line(World, parts, overflow_checks)} :
              /\ game' = w.game
              /\ players' = w.players
              /\ num_player' = w.num_player
              /\ i' = w.i
              /\ pc' = w.pc
              /\ last' = w.last

Help ==
    /\ pc = "prompt"
    /\ \E parts \in Typed({<< "?" >>}) : Reads(parts)

Hint ==
    /\ pc = "prompt"
    /\ \E parts \in Typed(HintLines) : Reads(parts)

Play ==
    /\ pc = "prompt"
    /\ \E parts \in Typed(PlayLines) : Reads(parts)

Discard ==
    /\ pc = "prompt"
    /\ \E parts \in Typed(DiscardLines) : Reads(parts)

Quit ==
    /\ pc = "prompt"
    /\ \E parts \in Typed({<< "q" >>}) : Reads(parts)

Other ==
    /\ pc = "prompt"
    /\ \E parts \in Typed(OtherLines) : Reads(parts)

Next == Help \/ Hint \/ Play \/ Discard \/ Quit \/ Other

Spec == Init /\ [][Next]_vars

(***************************************************************************)
(* Properties.  A step that reads a line changes stdin or turns; last' is  *)
(* then that line with the card it took from the hand and what Game::play  *)
(* returned.                                                               *)
(***************************************************************************)
PlayedRank(g, c) == IF c \in DOMAIN g.played THEN g.played[c] ELSE 0

Count(g, c, n) ==
    IF c \in DOMAIN g.discarded /\ n \in DOMAIN g.discarded[c]
    THEN g.discarded[c][n] ELSE 0

\* the copies of each number the claims speak of
Limit(n) == << 3, 2, 2, 2, 1 >>[n]

LineRead == stdin' # stdin \/ turns' # turns

Command(l) == IF l.parts = << >> THEN "" ELSE l.parts[1]
CardColor(l) == l.card[1].color.value
CardNumber(l) == l.card[1].number.value

\* the reasons end_game prints in a step
Printed == SubSeq(game'.stdout, Len(game.stdout) + 1, Len(game'.stdout))
Prints(reason) == \E k \in 1..Len(Printed) : Printed[k] = reason

\* a step in which Game::play returned
PlayReturned == LineRead /\ is_some(last'.ret)
\* a step in which a play took a card that is not the next of its color
PlayNotNext ==
    /\ LineRead
    /\ Command(last') = "p"
    /\ is_some(last'.card)
    /\ CardNumber(last') # PlayedRank(game, CardColor(last')) + 1
\* a step in which a discard took a card
Discarded == LineRead /\ Command(last') = "d" /\ is_some(last'.card)

\* C1: Game::play returns true iff the card's number is played[color] + 1 (0 for
\* a color not played yet); a play that returns true adds exactly 1 to
\* played[color] and leaves lives, hints and discarded as they were.
C1_PlayAcceptedIffNext ==
    [][PlayReturned =>
        /\ unwrap(last'.ret)
             <=> CardNumber(last') = PlayedRank(game, CardColor(last')) + 1
        /\ unwrap(last'.ret) =>
             /\ PlayedRank(game', CardColor(last'))
                  = PlayedRank(game, CardColor(last')) + 1
             /\ game'.lives = game.lives
             /\ game'.hints = game.hints
             /\ game'.discarded = game.discarded]_vars

\* an accepted play of a card above 1, on a color played before
C1_Witness ==
    /\ is_some(last.ret)
    /\ unwrap(last.ret)
    /\ CardNumber(last) >= 2
    /\ PlayedRank(game, CardColor(last)) = CardNumber(last)

\* C2: every value present in played is in 1..5; played[color] changes only in a
\* step in which a play of that color is accepted, and then by exactly +1.
C2_PlayedInRange == \A c \in DOMAIN game.played : game.played[c] \in 1..5

C2_PlayedAdvancesByOne ==
    /\ []C2_PlayedInRange
    /\ [][\A c \in Color :
            PlayedRank(game', c) # PlayedRank(game, c) =>
                /\ PlayedRank(game', c) = PlayedRank(game, c) + 1
                /\ PlayReturned
                /\ unwrap(last'.ret)
                /\ CardColor(last') = c]_vars

\* a color brought to 5 by the play just accepted
C2_Witness ==
    /\ is_some(last.ret)
    /\ unwrap(last.ret)
    /\ CardNumber(last) = 5
    /\ game.played[CardColor(last)] = 5

\* C3: a play that is not accepted takes exactly 1 from lives, adds exactly 1 to
\* discarded[color][number] of the card, leaves hints and played as they were,
\* and sets ended when lives reaches 0.
C3_RejectedPlay ==
    [][PlayNotNext =>
        /\ game'.lives = game.lives - 1
        /\ Count(game', CardColor(last'), CardNumber(last'))
             = Count(game, CardColor(last'), CardNumber(last')) + 1
        /\ game'.hints = game.hints
        /\ game'.played = game.played
        /\ (game'.lives = 0 => game'.ended)]_vars

\* C4: once ended is true no later command changes lives, hints, played,
\* discarded, the deck or a hand.
C4_EndedIsTerminal ==
    [][game.ended =>
        /\ game'.lives = game.lives
        /\ game'.hints = game.hints
        /\ game'.played = game.played
        /\ game'.discarded = game.discarded
        /\ game'.deck = game.deck
        /\ players' = players]_vars

\* C5: ended is never reset and end_game is invoked at most once in a run.
C5_EndGameOnce ==
    [][/\ game.ended => game'.ended
       /\ Len(game'.stdout) <= 1]_vars

\* C6: hints starts at 7 and stays in 0..7; a discard sets hints to
\* min(hints + 1, 7), adds exactly 1 to discarded[color][number] of the card and
\* leaves lives and played as they were.
C6_HintsInRange == game.hints \in 0..7

C6_DiscardRefunds ==
    /\ game.hints = 7
    /\ []C6_HintsInRange
    /\ [][Discarded =>
            /\ game'.hints = IF game.hints + 1 < 7 THEN game.hints + 1 ELSE 7
            /\ Count(game', CardColor(last'), CardNumber(last'))
                 = Count(game, CardColor(last'), CardNumber(last')) + 1
            /\ game'.lives = game.lives
            /\ game'.played = game.played]_vars

\* a discard made with 7 tokens: the one card drawn since the deal replaced the
\* card of this discard, so no earlier discard refunded a token, and no hint
\* has spent one
C6_Witness ==
    /\ Command(last) = "d"
    /\ is_some(last.card)
    /\ game.hints = 7
    /\ Len(game.deck.cards) + 1 + num_player * players[0].hand_size = 50
    /\ Count(game, CardColor(last), CardNumber(last)) = 1

\* C7: a hint that is accepted takes exactly 1 from hints; a hint typed with no
\* token left, or naming a player that does not exist or a value that is neither
\* a color nor a number of the deck, is refused: the game and the hands stay as
\* they were and the same player is prompted again.
KnownPlayer(parts) ==
    /\ Len(parts) >= 2
    /\ \E k \in 0..(num_player - 1) : parts[2] = << "0", "1", "2", "3", "4" >>[k + 1]

KnownValue(parts) ==
    /\ Len(parts) >= 3
    /\ parts[3] \in {"r", "b", "g", "w", "y", "1", "2", "3", "4", "5"}

C7_HintRefused ==
    [][(LineRead /\ Command(last') = "h") =>
        /\ is_some(last'.res) => game'.hints = game.hints - 1
        /\ (game.hints = 0 \/ ~ KnownPlayer(last'.parts) \/ ~ KnownValue(last'.parts)) =>
             /\ is_none(last'.res)
             /\ game' = game
             /\ players' = players
             /\ i' = i
             /\ pc' = pc]_vars

\* C8: discarded[color][number] never exceeds discard_limits[color][number].
C8_DiscardedWithinLimits ==
    \A c \in DOMAIN game.discarded : \A n \in DOMAIN game.discarded[c] :
        /\ game.discarded[c][n] <= game.discard_limits[c][n]
        /\ game.discard_limits[c][n] = Limit(n)

\* every copy of a card that has 2 or 3 copies is gone: the last by the only
\* play that was ever refused (lives is 2), the others by discards
C8_Witness ==
    /\ is_some(last.ret)
    /\ ~ unwrap(last.ret)
    /\ Limit(CardNumber(last)) >= 2
    /\ Count(game, CardColor(last), CardNumber(last)) = Limit(CardNumber(last))
    /\ game.lives = 2

\* C9: a discard or a play that is not accepted ends the game with the reason
\* "Hit discard limit with perfection enabled." exactly when perfection is on
\* and the count it adds to reaches discard_limits[color][number]; no other step
\* ends the game with that reason.
Dropped ==
    /\ LineRead
    /\ is_some(last'.card)
    /\ Count(game', CardColor(last'), CardNumber(last'))
         # Count(game, CardColor(last'), CardNumber(last'))

C9_PerfectionLimit ==
    [][IF Dropped
       THEN /\ Prints("Hit discard limit with perfection enabled.")
                 <=> /\ game.perfection
                     /\ Count(game', CardColor(last'), CardNumber(last'))
                          = Limit(CardNumber(last'))
            /\ Prints("Hit discard limit with perfection enabled.") => game'.ended
       ELSE ~ Prints("Hit discard limit with perfection enabled.")]_vars

\* with perfection on, the second of the two copies of a card has just been
\* discarded and the game has ended for that reason
C9_Witness ==
    /\ game.perfection
    /\ is_some(last.card)
    /\ CardNumber(last) \in 2..4
    /\ Count(game, CardColor(last), CardNumber(last)) = 2
    /\ game.ended
    /\ Len(game.stdout) >= 1
    /\ game.stdout[Len(game.stdout)] = "Hit discard limit with perfection enabled."

\* C10: an accepted play after which all 5 colors are played up to 5 sets ended
\* and prints "All colors completed", whatever lives and hints are.
C10_AllColorsCompleted ==
    [][(PlayReturned /\ unwrap(last'.ret)
          /\ \A c \in Color : PlayedRank(game', c) = 5) =>
        /\ game'.ended
        /\ Prints("All colors completed")]_vars

C10_Witness ==
    /\ is_some(last.ret)
    /\ unwrap(last.ret)
    /\ \A c \in Color : PlayedRank(game, c) = 5
    /\ game.ended

\* C11 (as claimed): the deck is empty after 50 draws, and depleted is true
\* exactly in the states where one card or none remains.
C11_DepletedAtOneCard ==
    game.deck.depleted <=> Len(game.deck.cards) <= 1

\* C11: the deck holds 50 cards less the cards dealt, every step takes at most
\* one card from it, so that it is empty after 50 draws; depleted is true
\* exactly in the states where no card remains (it becomes true at the draw
\* that takes the last card).
C11_DepletedIffEmpty == game.deck.depleted <=> Len(game.deck.cards) = 0

C11_DepletedWhenEmpty ==
    /\ Len(game.deck.cards) + num_player * players[0].hand_size = 50
    /\ []C11_DepletedIffEmpty
    /\ [][\/ Len(game'.deck.cards) = Len(game.deck.cards)
          \/ /\ Len(game'.deck.cards) = Len(game.deck.cards) - 1
             /\ is_some(last'.card)]_vars

\* the draw that followed a discard has taken the last card
C11_Witness ==
    /\ Len(game.deck.cards) = 0
    /\ game.deck.depleted
    /\ Command(last) = "d"
    /\ is_some(last.res)

\* a step in which a play or a discard took the card at Index from the hand of
\* player last'.player and the Game operation it was passed to returned
Index(l) == decimal[l.parts[2]]
HandBefore(l) == players[l.player].hand
Handed ==
    /\ LineRead
    /\ is_some(last'.card)
    /\ Command(last') = "p" => is_some(last'.ret)

\* C12: a play or a discard with a valid index removes that card from the hand
\* and, once the Game operation has returned, draws exactly one replacement when
\* the deck is not empty; when the deck is empty nothing is drawn, the hand is
\* one card shorter and the command completes without a failure.
C12_DrawUnlessEmpty ==
    [][Handed =>
        /\ unwrap(last'.card) = HandBefore(last')[Index(last') + 1]
        /\ Len(game.deck.cards) > 0 =>
             /\ game'.deck.cards
                  = SubSeq(game.deck.cards, 1, Len(game.deck.cards) - 1)
             /\ players'[last'.player].hand
                  = Append(VecDeque_remove(HandBefore(last'), Index(last')).rest,
                           game.deck.cards[Len(game.deck.cards)])
        /\ Len(game.deck.cards) = 0 =>
             /\ game'.deck.cards = game.deck.cards
             /\ players'[last'.player].hand
                  = VecDeque_remove(HandBefore(last'), Index(last')).rest
             /\ ~ last'.panic
             /\ pc' # "panicked"]_vars

\* C13: between commands (the process has not aborted inside one), as long as
\* the deck is not exhausted, every player's hand holds exactly hand_size
\* cards, 5 in a game of 2 to 4 players and 4 in a game of 5.
C13_HandsFull ==
    (pc # "panicked" /\ Len(game.deck.cards) > 0) =>
        \A p \in DOMAIN players :
            /\ Len(players[p].hand) = players[p].hand_size
            /\ players[p].hand_size = IF num_player < 5 THEN 5 ELSE 4

\* a discard has taken a card and its replacement was drawn, after the second
\* player has played too; cards remain in the deck
C13_Witness ==
    /\ pc = "prompt"
    /\ Command(last) = "d"
    /\ is_some(last.card)
    /\ last.player = 1
    /\ Len(game.deck.cards) > 0
    /\ Len(game.deck.cards) + num_player * players[0].hand_size < 48
    /\ Len(players[1].hand) = players[1].hand_size

\* the cards of the hand of player q that the step leaves in it, in order: all
\* of them, or all but the card a play or a discard has taken
Kept(q) ==
    IF LineRead /\ is_some(last'.card) /\ q = last'.player
    THEN VecDeque_remove(players[q].hand, Index(last')).rest
    ELSE players[q].hand

\* a step in which a hint to player HintTarget was accepted
HintGiven == LineRead /\ Command(last') = "h" /\ is_some(last'.res)
HintTarget == decimal[last'.parts[2]]
HintsColor(c) ==
    /\ last'.parts[3] \in DOMAIN letters
    /\ letters[last'.parts[3]] = c
HintsNumber(n) ==
    /\ last'.parts[3] \in DOMAIN decimal
    /\ decimal[last'.parts[3]] = n

\* C14: an accepted color (number) hint to a player reveals the color (number)
\* of exactly the cards of that hand whose color (number) is the hinted value;
\* the other cards of the hand, the other attribute and the other hands keep
\* their known flags.  In every step a card that stays in a hand or in the deck
\* keeps its color and number, and a known flag that is set stays set.
C14_HintRevealsMatching ==
    [][/\ \A q \in DOMAIN players :
            /\ Len(players'[q].hand) >= Len(Kept(q))
            /\ \A k \in 1..Len(Kept(q)) :
                 LET a == Kept(q)[k]
                     b == players'[q].hand[k]
                 IN  /\ b.color.value = a.color.value
                     /\ b.number.value = a.number.value
                     /\ a.color.known => b.color.known
                     /\ a.number.known => b.number.known
                     /\ IF HintGiven /\ q = HintTarget
                        THEN /\ b.color.known <=>
                                  (a.color.known \/ HintsColor(a.color.value))
                             /\ b.number.known <=>
                                  (a.number.known \/ HintsNumber(a.number.value))
                        ELSE b = a
       /\ Len(game'.deck.cards) <= Len(game.deck.cards)
       /\ game'.deck.cards = SubSeq(game.deck.cards, 1, Len(game'.deck.cards))]_vars

\* a number hint has just revealed some cards of a hand and not others, and a
\* card whose color an earlier hint revealed still shows it
C14_Witness ==
    /\ Command(last) = "h"
    /\ is_some(last.res)
    /\ last.parts[3] = "1"
    /\ \E j, k, m \in 1..Len(players[1].hand) :
          /\ players[1].hand[j].number.known
          /\ players[1].hand[j].number.value = 1
          /\ ~ players[1].hand[k].number.known
          /\ players[1].hand[m].color.known
          /\ ~ players[1].hand[m].number.known

\* the copies of the card (c, n) in the deck and in the hands
InDeck(c, n) ==
    Cardinality({k \in 1..Len(game.deck.cards) :
                    /\ game.deck.cards[k].color.value = c
                    /\ game.deck.cards[k].number.value = n})
InHands(c, n) ==
    Cardinality({pk \in (DOMAIN players) \X (1..6) :
                    /\ pk[2] <= Len(players[pk[1]].hand)
                    /\ players[pk[1]].hand[pk[2]].color.value = c
                    /\ players[pk[1]].hand[pk[2]].number.value = n})

\* C15: in every state between commands (the process has not aborted inside
\* one), for every color c and number n, the copies of (c, n) in the deck and in
\* the hands, plus discarded[c][n], plus 1 when played[c] >= n, are
\* discard_limits[c][n], the 3, 2, 2, 2, 1 copies of the 50 cards; every draw
\* takes exactly one card from the deck.
C15_Conserved ==
    pc # "panicked" =>
        \A c \in Color, n \in 1..5 :
            InDeck(c, n) + InHands(c, n) + Count(game, c, n)
              + (IF PlayedRank(game, c) >= n THEN 1 ELSE 0)
                = game.discard_limits[c][n]

C15_CardConservation ==
    /\ []C15_Conserved
    /\ [][(Handed /\ ~ last'.panic) =>
            Len(game'.deck.cards) = Len(game.deck.cards) - 1]_vars

\* of the three copies of a 1, one has been played, one discarded and one is
\* still in the deck or in a hand
C15_Witness ==
    /\ pc = "prompt"
    /\ \E c \in Color :
          /\ PlayedRank(game, c) >= 1
          /\ Count(game, c, 1) = 1
          /\ InDeck(c, 1) + InHands(c, 1) = 1

\* C16: check_dangerous(color, number, count), as discarded_strings calls it at
\* every prompt, is true iff played[color] (0 when absent) is strictly less than
\* number and count + 1 >= discard_limits[color][number]; it is false when the
\* color has been played up to exactly that number.
C16_DangerousIffNeeded ==
    pc = "prompt" =>
        \A c \in DOMAIN game.discarded : \A n \in DOMAIN game.discarded[c] :
            discarded_strings(game)[c][n]
              <=> /\ PlayedRank(game, c) < n
                  /\ game.discarded[c][n] + 1 >= game.discard_limits[c][n]

\* C17: a step ends the game with the reason "All colors completed" only into a
\* state where each of the 5 colors is played up to 5; never while a color is
\* not played yet or is below 5.
C17_CompletedOnlyWhenAllFive ==
    [][Prints("All colors completed") =>
          \A c \in Color : PlayedRank(game', c) = 5]_vars

\* a step in which a play or a discard names an index that is not strictly
\* less than the length of the hand of the player prompted
IndexOutOfRange ==
    /\ LineRead
    /\ Command(last') \in {"p", "d"}
    /\ Len(last'.parts) >= 2
    /\ last'.parts[2] \in DOMAIN decimal
    /\ Index(last') >= Len(players[i].hand)

\* C18: a play or a discard whose index is not strictly less than the length of
\* the hand is rejected as an invalid command: nothing changes, the same player
\* is prompted again, and Player::play / Player::discard is not reached with it
\* (no abort).
C18_IndexValidated ==
    [][IndexOutOfRange =>
        /\ is_none(last'.res)
        /\ ~ last'.panic
        /\ game' = game
        /\ players' = players
        /\ i' = i
        /\ pc' = "prompt"]_vars

\* C19: lives stays in 0..3, and a play that is not accepted is never made with
\* lives already 0, also in the turns of the players that remain in the round
\* in which the game ended.
C19_LivesNeverBelowZero ==
    /\ [](game.lives \in 0..3)
    /\ [][PlayNotNext => game.lives >= 1]_vars

\* C20: a run never aborts before the game has ended: in particular no play or
\* discard of a card of the hand aborts on the draw from the deck that plays
\* and discards have used up.  (That every run then reaches ended = TRUE, given
\* that every turn issues an accepted command, is the other half of the claim.)
C20_NoAbortBeforeEnd ==
    (pc = "panicked" /\ is_some(last.card)) => game.ended

====
